---- MODULE Spec2Model ----
(***************************************************************************)
(* The lettuce growth model of base_lettuce_model.py: the rate function    *)
(* _model_core, the RK4 integrator of step, and the life cycle of          *)
(* BaseLettuceMechanisticModel instances that reference caller-owned       *)
(* parameter dictionaries.                                                 *)
(*                                                                         *)
(* Numbers.  The program computes in IEEE double precision.  Here a real   *)
(* number v is the integer nearest to v * Scale (fixed point), and every   *)
(* multiplication and division rounds to nearest, ties to even, as every   *)
(* floating-point operation does.  Only finite values are modelled.        *)
(***************************************************************************)
EXTENDS Integers, Sequences, FiniteSets, TLC

\* Resolution of the fixed-point numbers: v is represented by v * Scale.
Scale == 10000

\* Most state-advancing calls to step explored in one behaviour.
MaxSteps == 1

\* self.h = control_rate * 60
SecondsPerMinute == 60

----------------------------------------------------------------------------
(* Arithmetic *)

Abs(n) == IF n < 0 THEN -n ELSE n

\* base + n / d rounded to the nearest integer, ties to even (d # 0).
RoundSum(base, n, d) ==
    LET nn == IF d < 0 THEN -n ELSE n
        dd == Abs(d)
        q == base + (nn \div dd)
        r == nn % dd
    IN  IF 2 * r < dd THEN q
        ELSE IF 2 * r > dd THEN q + 1
        ELSE IF q % 2 = 0 THEN q ELSE q + 1

\* n / d rounded to the nearest integer, ties to even (d # 0).
Round(n, d) == RoundSum(0, n, d)

\* The number v as a fixed-point value; a / b of two integers likewise.
Fix(v) == v * Scale
Ratio(a, b) == Round(a * Scale, b)

\* a * b on fixed-point values: a * b / Scale rounded, computed on the
\* high and low parts of a and b so that no intermediate product exceeds
\* the integer range.
FMul(a, b) ==
    LET ah == a \div Scale
        al == a % Scale
        bh == b \div Scale
        bl == b % Scale
    IN  RoundSum(ah * bh * Scale + ah * bl + al * bh, al * bl, Scale)

\* a / b on fixed-point values (b # 0): a * Scale / b rounded, by long
\* division.
FDiv(a, b) ==
    LET aa == IF b < 0 THEN -a ELSE a
        bb == Abs(b)
    IN  RoundSum((aa \div bb) * Scale, (aa % bb) * Scale, bb)

\* The largest s in lo..hi with s * s <= n (lo * lo <= n).
RECURSIVE ISqrt(_, _, _)
ISqrt(n, lo, hi) ==
    IF lo >= hi THEN lo
    ELSE LET mid == (lo + hi + 1) \div 2
         IN  IF mid * mid <= n THEN ISqrt(n, mid, hi) ELSE ISqrt(n, lo, mid - 1)

\* The square root of a fixed-point value a >= 0, rounded down.
FSqrt(a) == ISqrt(a * Scale, 0, a + Scale)

RECURSIVE IntPow(_, _)
IntPow(b, k) == IF k = 0 THEN Fix(1) ELSE FMul(b, IntPow(b, k - 1))

\* b ** (k / 2) for b > 0 and an integer k.
HalfPow(b, k) ==
    IF k % 2 = 0
    THEN IF k >= 0 THEN IntPow(b, k \div 2) ELSE FDiv(Fix(1), IntPow(b, (-k) \div 2))
    ELSE IF k >= 0 THEN IntPow(FSqrt(b), k) ELSE FDiv(Fix(1), IntPow(FSqrt(b), -k))

\* b ** e for b > 0.  The exponents of the rate function are (t - 20) / 10
\* and (t - 25) / 10; e is resolved to a multiple of 1/2, which is exact for
\* every temperature that is a multiple of 5.
FPow(b, e) == HalfPow(b, Round(2 * e, Scale))

\* np.exp: for |z| <= 1/2 the Taylor polynomial of degree 4, otherwise
\* exp(z) = exp(z / 2) ** 2.
RECURSIVE FExp(_)
FExp(z) ==
    IF 2 * Abs(z) <= Scale
    THEN LET z2 == FMul(z, z)
             z3 == FMul(z2, z)
             z4 == FMul(z3, z)
         IN  Fix(1) + z + Round(z2, 2) + Round(z3, 6) + Round(z4, 24)
    ELSE LET e == FExp(Round(z, 2)) IN FMul(e, e)

----------------------------------------------------------------------------
(* The rate function *)

\* _beer_lambert(lai, k) = -np.exp(-k * lai) + 1
_beer_lambert(lai, k) == -FExp(FMul(-k, lai)) + Fix(1)

\* What a call of the jitted rate function yields: the rates ki / pd, or the
\* ZeroDivisionError that a scalar division by zero raises in nopython mode.
Rates(k) == [raised |-> FALSE, k |-> k]
DivisionByZero == [raised |-> TRUE, k |-> <<0, 0>>]

\* t, r, co2, pd = u
u_t(u) == u[1]
u_r(u) == u[2]
u_co2(u) == u[3]
u_pd(u) == u[4]

\* The positional unpacking of params_array.
c_R(p) == p[1]
c_Q10_R(p) == p[2]
c_epsilon(p) == p[3]
c_w(p) == p[4]
g_bnd(p) == p[5]
g_stm(p) == p[6]
c_car_1(p) == p[7]
c_car_2(p) == p[8]
c_car_3(p) == p[9]
c_gr_max(p) == p[10]
c_r(p) == p[11]
c_resp_sht(p) == p[12]
c_resp_rt(p) == p[13]
c_Q10_gr(p) == p[14]
c_Q10_resp(p) == p[15]
c_t(p) == p[16]
c_k(p) == p[17]
c_lar(p) == p[18]
c_a(p) == p[19]
c_b(p) == p[20]
external_li(p) == p[21]

\* ki = [c_a * f_photo - rgr * x[1] - f_resp - (1 - c_b) / c_b * rgr * x[1],
\*       rgr * x[1]];  return ki / pd.
\* ki / pd divides an array, which does not raise; pd = 0 makes x * pd zero
\* and the division of rgr raises before this point.
CoreRates(X, u, p, f_photo, rgr, f_resp) ==
    IF c_b(p) = 0
    THEN DivisionByZero
    ELSE Rates(<< FDiv(FMul(c_a(p), f_photo) - FMul(rgr, X[2]) - f_resp
                        - FMul(FMul(FDiv(Fix(1) - c_b(p), c_b(p)), rgr), X[2]),
                      u_pd(u)),
                  FDiv(FMul(rgr, X[2]), u_pd(u)) >>)

\* f_resp = (c_resp_sht * (1 - c_t) * x[1] + c_resp_rt * c_t * x[1])
\*          * c_Q10_resp ** ((t - 25) / 10)
CoreResp(X, u, p, f_photo, rgr) ==
    CoreRates(X, u, p, f_photo, rgr,
              FMul(FMul(FMul(c_resp_sht(p), Fix(1) - c_t(p)), X[2])
                     + FMul(FMul(c_resp_rt(p), c_t(p)), X[2]),
                   FPow(c_Q10_resp(p), FDiv(u_t(u) - Fix(25), Fix(10)))))

\* rgr with c_resp_rt unpacked where c_gr_max belongs.
CoreGrowthSlot(X, u, p, f_photo) ==
    IF FMul(c_r(p), X[2]) + X[1] = 0
    THEN DivisionByZero
    ELSE CoreResp(X, u, p, f_photo,
                  FMul(FMul(c_resp_rt(p), FDiv(X[1], FMul(c_r(p), X[2]) + X[1])),
                       FPow(c_Q10_gr(p), FDiv(u_t(u) - Fix(20), Fix(10)))))

\* rgr = c_gr_max * (x[0] / (c_r * x[1] + x[0])) * c_Q10_gr ** ((t - 20) / 10)
CoreGrowth(X, u, p, f_photo) ==
    IF FMul(c_r(p), X[2]) + X[1] = 0
    THEN DivisionByZero
    ELSE CoreResp(X, u, p, f_photo,
                  FMul(FMul(c_gr_max(p), FDiv(X[1], FMul(c_r(p), X[2]) + X[1])),
                       FPow(c_Q10_gr(p), FDiv(u_t(u) - Fix(20), Fix(10)))))

\* f_photo_max = (lue * r * g_co2 * c_w * (co2 - R))
\*               / (lue * r + g_co2 * c_w * (co2 - R))
\* f_photo = f_photo_max * light_interception
CorePhoto(X, u, p, R, lue, g_co2, light_interception) ==
    IF FMul(lue, u_r(u)) + FMul(FMul(g_co2, c_w(p)), u_co2(u) - R) = 0
    THEN DivisionByZero
    ELSE CoreGrowth(X, u, p,
             FMul(FDiv(FMul(FMul(FMul(FMul(lue, u_r(u)), g_co2), c_w(p)), u_co2(u) - R),
                       FMul(lue, u_r(u)) + FMul(FMul(g_co2, c_w(p)), u_co2(u) - R)),
                  light_interception))

\* The light interception with the method flag tested the other way round.
LightInterceptionSwapped(X, p, light_interception_method) ==
    IF light_interception_method # 0
    THEN _beer_lambert(FMul(FMul(c_lar(p), Fix(1) - c_t(p)), X[2]), c_k(p))
    ELSE external_li(p)

\* The light interception of the selected method: Beer-Lambert on
\* lai = c_lar * (1 - c_t) * x[1], or the external value params_array[20].
LightInterception(X, p, light_interception_method) ==
    IF light_interception_method = 0
    THEN _beer_lambert(FMul(FMul(c_lar(p), Fix(1) - c_t(p)), X[2]), c_k(p))
    ELSE external_li(p)

\* g_co2 = 1 / (1 / g_bnd + 1 / g_stm + 1 / car)
CoreConductance(X, u, p, method, R, lue, car) ==
    IF g_bnd(p) = 0 \/ g_stm(p) = 0 \/ car = 0
    THEN DivisionByZero
    ELSE IF FDiv(Fix(1), g_bnd(p)) + FDiv(Fix(1), g_stm(p)) + FDiv(Fix(1), car) = 0
    THEN DivisionByZero
    ELSE CorePhoto(X, u, p, R, lue,
             FDiv(Fix(1), FDiv(Fix(1), g_bnd(p)) + FDiv(Fix(1), g_stm(p)) + FDiv(Fix(1), car)),
             LightInterception(X, p, method))

\* lue = c_epsilon * (co2 - R) / (co2 + 2 * R), then the carboxylation
\* conductance car = c_car_1 * t**2 + c_car_2 * t + c_car_3.
CoreLue(X, u, p, method, R) ==
    IF u_co2(u) + 2 * R = 0
    THEN DivisionByZero
    ELSE CoreConductance(X, u, p, method, R,
             FDiv(FMul(c_epsilon(p), u_co2(u) - R), u_co2(u) + 2 * R),
             FMul(c_car_1(p), FMul(u_t(u), u_t(u))) + FMul(c_car_2(p), u_t(u)) + c_car_3(p))

\* _model_core(x, u, params_array, light_interception_method).  x is the pair
\* <<x0, x1>>, u the control vector <<t, r, co2, pd>>, params_array the 21
\* coefficients in the positional order of _init_params_array.  It starts
\* with x = x * pd and R = c_R * c_Q10_R ** ((t - 20) / 10); each later line
\* of the function is one of the definitions above, which passes what it
\* computed on or raises.
_model_core(x, u, params_array, light_interception_method) ==
    CoreLue(<<FMul(x[1], u_pd(u)), FMul(x[2], u_pd(u))>>, u, params_array,
            light_interception_method,
            FMul(c_R(params_array),
                 FPow(c_Q10_R(params_array), FDiv(u_t(u) - Fix(20), Fix(10)))))

----------------------------------------------------------------------------
(* The integrator *)

\* state + c * k on pairs
Axpy(x, c, k) == <<x[1] + FMul(c, k[1]), x[2] + FMul(c, k[2])>>

\* One evaluation of the rate function, by its arguments, and one write of
\* self.state, by the value written.
Evaluated(x, u, params_array, method_flag) ==
    [op |-> "_model_core", x |-> x, u |-> u, params_array |-> params_array,
     light_interception_method |-> method_flag]
Written(x) == [op |-> "self.state", x |-> x]

\* What the body of step yields: the new state, or the exception of a stage,
\* which leaves the state as it was; and what it did, in order: ev is the
\* evaluations of the rate function made so far.
Advanced(x, ev) == [raised |-> FALSE, state |-> x, trace |-> Append(ev, Written(x))]
Failed(x, ev) == [raised |-> TRUE, state |-> x, trace |-> ev]

\* self.state += self.h/6 * (k1 + 2*k2 + 2*k3 + k4)
RK4Update(x, h, k1, k2, k3, k4, ev) ==
    IF k4.raised
    THEN Failed(x, ev)
    ELSE Advanced(Axpy(x, FDiv(h, Fix(6)),
                       << k1[1] + 2 * k2[1] + 2 * k3[1] + k4.k[1],
                          k1[2] + 2 * k2[2] + 2 * k3[2] + k4.k[2] >>),
                  ev)

\* k4 = _model_core(self.state + self.h * k3, ...)
RK4Stage4(x, u, p, method_flag, h, k1, k2, k3, ev) ==
    IF k3.raised
    THEN Failed(x, ev)
    ELSE RK4Update(x, h, k1, k2, k3.k,
                   _model_core(Axpy(x, h, k3.k), u, p, method_flag),
                   Append(ev, Evaluated(Axpy(x, h, k3.k), u, p, method_flag)))

\* k3 = _model_core(self.state + self.h/2 * k2, ...)
RK4Stage3(x, u, p, method_flag, h, k1, k2, ev) ==
    IF k2.raised
    THEN Failed(x, ev)
    ELSE RK4Stage4(x, u, p, method_flag, h, k1, k2.k,
                   _model_core(Axpy(x, FDiv(h, Fix(2)), k2.k), u, p, method_flag),
                   Append(ev, Evaluated(Axpy(x, FDiv(h, Fix(2)), k2.k), u, p, method_flag)))

\* k2 = _model_core(self.state + self.h/2 * k1, ...)
RK4Stage2(x, u, p, method_flag, h, k1, ev) ==
    IF k1.raised
    THEN Failed(x, ev)
    ELSE RK4Stage3(x, u, p, method_flag, h, k1.k,
                   _model_core(Axpy(x, FDiv(h, Fix(2)), k1.k), u, p, method_flag),
                   Append(ev, Evaluated(Axpy(x, FDiv(h, Fix(2)), k1.k), u, p, method_flag)))

\* The body of step, from k1 = _model_core(self.state, ...) on.
RK4(x, u, params_array, method_flag, h) ==
    RK4Stage2(x, u, params_array, method_flag, h,
              _model_core(x, u, params_array, method_flag),
              <<Evaluated(x, u, params_array, method_flag)>>)

----
(* Parameter dictionaries *)

\* The key order of _init_params_array.
ParamOrder ==
    << "c_R", "c_Q10_R", "c_epsilon", "c_w", "g_bnd", "g_stm",
       "c_car_1", "c_car_2", "c_car_3", "c_gr_max", "c_r",
       "c_resp_sht", "c_resp_rt", "c_Q10_gr", "c_Q10_resp",
       "c_t", "c_k", "c_lar", "c_a", "c_b" >>

\* required_params of _validate_inputs.
required_params ==
    { "c_a", "c_b", "c_gr_max", "c_r", "c_resp_sht", "c_resp_rt",
      "c_Q10_gr", "c_Q10_resp", "c_t", "c_k", "c_lar", "c_epsilon",
      "c_w", "c_R", "c_Q10_R", "g_bnd", "g_stm", "c_car_1",
      "c_car_2", "c_car_3" }

\* A dictionary value that is not a number (the Python object None), encoded
\* as an integer that no fixed-point number of the model takes.  np.array
\* stores it as it is, in an array of dtype object.
NonNumeric == -2147483647
Numeric(v) == v # NonNumeric

\* dict.update: the entries of new_params replace or extend those of dict.
DictUpdate(dict, new_params) ==
    [k \in DOMAIN dict \cup DOMAIN new_params |->
        IF k \in DOMAIN new_params THEN new_params[k] ELSE dict[k]]

\* The dictionary without the keys in ks.
Without(dict, ks) == [k \in DOMAIN dict \ ks |-> dict[k]]

\* A complete parameter dictionary (values in units that keep the rates of
\* one step within the fixed-point range).
BaseParams ==
    [ c_R |-> Fix(1), c_Q10_R |-> Fix(4), c_epsilon |-> Fix(1), c_w |-> Fix(1),
      g_bnd |-> Fix(1), g_stm |-> Fix(1),
      c_car_1 |-> Ratio(1, 1000), c_car_2 |-> 0, c_car_3 |-> Ratio(6, 10),
      c_gr_max |-> Ratio(2, 1000), c_r |-> Fix(1),
      c_resp_sht |-> Ratio(5, 10000), c_resp_rt |-> Ratio(1, 1000),
      c_Q10_gr |-> Fix(4), c_Q10_resp |-> Fix(4),
      c_t |-> Ratio(1, 2), c_k |-> Fix(1), c_lar |-> Ratio(1, 10),
      c_a |-> Ratio(1, 10), c_b |-> Ratio(8, 10) ]

----------------------------------------------------------------------------
(* Inputs *)

\* The model objects a caller may construct, and the dictionaries it owns.
Instances == {"a", "b"}
DictIds == {"d1", "d2", "d3"}

\* The caller's dictionaries before any model exists: d1 is complete, d2 is
\* complete and carries one more key, d3 lacks two required keys.
InitialDicts ==
    [d \in DictIds |->
        CASE d = "d1" -> BaseParams
          [] d = "d2" -> DictUpdate(BaseParams, [c_k |-> Ratio(1, 2), c_note |-> Fix(7)])
          [] OTHER -> Without(BaseParams, {"c_a", "g_stm"})]

PlantDws == {0, Fix(5)}
PlantDensities == {0, 90}
ControlRates == {5}
Methods == {0, 1}

\* Control vectors <<t, r, co2, pd>>: a lit one, a dark one (r = 0), and one
\* with a zero population-density factor.
Controls ==
    { <<Fix(20), Fix(2), Fix(4), Fix(1)>>,
      <<Fix(25), 0, Fix(4), Fix(2)>>,
      <<Fix(20), Fix(2), Fix(4), 0>> }

\* Arguments of set_external_light_interception.
LightValues == {-Ratio(1, 10), 0, Ratio(42, 100), Ratio(15, 10)}

\* Arguments of update_parameters.
NewParams ==
    { [c_gr_max |-> 0],
      [c_gr_max |-> 0, c_bogus |-> Fix(1)],
      [k \in {} |-> 0] }

----------------------------------------------------------------------------
(* State *)

VARIABLES
    dicts,                          \* the caller-owned dictionaries, by identity
    parameters,                     \* self.parameters: a reference to a dictionary
    light_interception_method,      \* self.light_interception_method
    _external_light_interception,   \* self._external_light_interception
    state0,                         \* self.state0
    state,                          \* self.state = <<x0, x1>>
    h,                              \* self.h
    plant_density,                  \* self.plant_density
    params_array,                   \* self.params_array
    raised,                         \* the exception the most recent call raised
    nsteps,                         \* calls to step that advanced a state so far
    step_trace                      \* what the most recent call did, if it was a
                                    \* step: its evaluations and writes, in order

fields == << parameters, light_interception_method, _external_light_interception,
             state0, state, h, plant_density, params_array >>
vars == << dicts, parameters, light_interception_method,
           _external_light_interception, state0, state, h, plant_density,
           params_array, raised, nsteps, step_trace >>

\* Every attribute is a function on the objects it has been assigned on: an
\* object that __init__ never completed on has no attributes.
Constructed(self) == self \in DOMAIN parameters

\* The exceptions a call can raise, and None for a call that returned normally.
None == [type |-> "None", msg |-> "", names |-> {}]
ValueError(msg, names) == [type |-> "ValueError", msg |-> msg, names |-> names]
ZeroDivisionError == [type |-> "ZeroDivisionError", msg |-> "division by zero", names |-> {}]
\* What the jitted rate function raises when it is called with an array that
\* holds an object that is not a number.
TypingError == [type |-> "TypingError", msg |-> "non-precise type", names |-> {}]

----------------------------------------------------------------------------
(* Operations *)

\* _validate_inputs testing plant_dw < 0 where the code tests plant_dw <= 0.
_validate_inputs_nonneg(plant_dw, plant_density_, parameters_) ==
    IF plant_dw < 0
    THEN ValueError("Plant dry weight must be positive", {})
    ELSE IF plant_density_ <= 0
    THEN ValueError("Plant density must be positive", {})
    ELSE IF required_params \ DOMAIN parameters_ # {}
    THEN ValueError("Missing required parameters", required_params \ DOMAIN parameters_)
    ELSE None

\* _validate_inputs: the exception it raises, or None.
_validate_inputs(plant_dw, plant_density_, parameters_) ==
    LET missing == required_params \ DOMAIN parameters_
    IN  IF plant_dw <= 0
        THEN ValueError("Plant dry weight must be positive", {})
        ELSE IF plant_density_ <= 0
        THEN ValueError("Plant density must be positive", {})
        ELSE IF missing # {}
        THEN ValueError("Missing required parameters", missing)
        ELSE None

\* _init_params_array appending 0.0 where the code appends the stored override.
_init_params_array_zero(parameters_, external) ==
    [i \in 1..Len(ParamOrder) |-> parameters_[ParamOrder[i]]] \o <<0>>

\* _init_params_array: the 20 coefficients in ParamOrder, then the override.
_init_params_array(parameters_, external) ==
    [i \in 1..Len(ParamOrder) |-> parameters_[ParamOrder[i]]] \o <<external>>

\* self.attr = value on an object that has no such attribute yet.
Assign(attr, self, value) ==
    [i \in DOMAIN attr \cup {self} |-> IF i = self THEN value ELSE attr[i]]

\* The 20/80 split of __init__ and reset.
InitialState(dw) == <<FMul(dw, Ratio(2, 10)), FMul(dw, Ratio(8, 10))>>

Init ==
    /\ dicts = InitialDicts
    /\ parameters = <<>>
    /\ light_interception_method = <<>>
    /\ _external_light_interception = <<>>
    /\ state0 = <<>>
    /\ state = <<>>
    /\ h = <<>>
    /\ plant_density = <<>>
    /\ params_array = <<>>
    /\ raised = None
    /\ nsteps = 0
    /\ step_trace = <<>>

\* __init__(plant_dw, plant_density, parameters, control_rate,
\* light_interception_method), parameters being the dictionary d.
__init__(self, plant_dw, plant_density_, d, control_rate, method) ==
    LET error == _validate_inputs(plant_dw, plant_density_, dicts[d])
    IN  /\ ~Constructed(self)
        /\ raised' = error
        /\ IF error # None
           THEN UNCHANGED fields
           ELSE /\ parameters' = Assign(parameters, self, d)
                /\ light_interception_method' =
                       Assign(light_interception_method, self, method)
                /\ _external_light_interception' =
                       Assign(_external_light_interception, self, 0)
                /\ state0' = Assign(state0, self, plant_dw)
                /\ state' = Assign(state, self, InitialState(plant_dw))
                /\ h' = Assign(h, self, control_rate * SecondsPerMinute)
                /\ plant_density' = Assign(plant_density, self, plant_density_)
                /\ params_array' =
                       Assign(params_array, self, _init_params_array(dicts[d], 0))
        /\ UNCHANGED <<dicts, nsteps>>
        /\ step_trace' = <<>>

\* set_external_light_interception storing the value before it tests the range.
set_external_light_interception_late(self, value) ==
    /\ Constructed(self)
    /\ raised' = IF ~(0 <= value /\ value <= Fix(1))
                 THEN ValueError("Light interception must be between 0 and 1", {})
                 ELSE None
    /\ _external_light_interception' =
           [_external_light_interception EXCEPT ![self] = value]
    /\ params_array' = [params_array EXCEPT ![self][Len(ParamOrder) + 1] = value]
    /\ UNCHANGED <<dicts, parameters, light_interception_method, state0, state, h,
                   plant_density, nsteps>>
    /\ step_trace' = <<>>

\* set_external_light_interception(value)
set_external_light_interception(self, value) ==
    /\ Constructed(self)
    /\ IF ~(0 <= value /\ value <= Fix(1))
       THEN /\ raised' = ValueError("Light interception must be between 0 and 1", {})
            /\ UNCHANGED <<_external_light_interception, params_array>>
       ELSE /\ raised' = None
            /\ _external_light_interception' =
                   [_external_light_interception EXCEPT ![self] = value]
            /\ params_array' = [params_array EXCEPT ![self][Len(ParamOrder) + 1] = value]
    /\ UNCHANGED <<dicts, parameters, light_interception_method, state0, state, h,
                   plant_density, nsteps>>
    /\ step_trace' = <<>>

\* step(action): result is what the RK4 body yields.
StepResult(self, result) ==
    /\ raised' = IF result.raised THEN ZeroDivisionError ELSE None
    /\ state' = [state EXCEPT ![self] = result.state]
    /\ nsteps' = IF result.raised THEN nsteps ELSE nsteps + 1
    /\ step_trace' = result.trace

step(self, action) ==
    /\ Constructed(self)
    /\ nsteps < MaxSteps
    /\ UNCHANGED <<dicts, parameters, light_interception_method,
                   _external_light_interception, state0, h, plant_density,
                   params_array>>
    /\ IF \E i \in DOMAIN params_array[self] : ~Numeric(params_array[self][i])
       THEN /\ raised' = TypingError
            /\ step_trace' = <<>>
            /\ UNCHANGED <<state, nsteps>>
       ELSE StepResult(self, RK4(state[self], action, params_array[self],
                                 light_interception_method[self], Fix(h[self])))

\* update_parameters merging the known keys before it raises for the unknown.
update_parameters_partial(self, new_params) ==
    /\ Constructed(self)
    /\ raised' = IF DOMAIN new_params \ DOMAIN dicts[parameters[self]] # {}
                 THEN ValueError("Unknown parameters",
                                 DOMAIN new_params \ DOMAIN dicts[parameters[self]])
                 ELSE None
    /\ dicts' = [dicts EXCEPT ![parameters[self]] =
                    DictUpdate(@, [k \in DOMAIN new_params \cap DOMAIN @ |-> new_params[k]])]
    /\ params_array' =
           [params_array EXCEPT ![self] =
               _init_params_array(dicts'[parameters[self]],
                                  _external_light_interception[self])]
    /\ UNCHANGED <<parameters, light_interception_method,
                   _external_light_interception, state0, state, h, plant_density,
                   nsteps>>
    /\ step_trace' = <<>>

\* update_parameters that also puts the state back to the initial split.
update_parameters_reset(self, new_params) ==
    /\ Constructed(self)
    /\ IF DOMAIN new_params \ DOMAIN dicts[parameters[self]] # {}
       THEN /\ raised' = ValueError("Unknown parameters",
                                    DOMAIN new_params \ DOMAIN dicts[parameters[self]])
            /\ UNCHANGED <<dicts, params_array, state>>
       ELSE /\ raised' = None
            /\ dicts' = [dicts EXCEPT ![parameters[self]] = DictUpdate(@, new_params)]
            /\ params_array' =
                   [params_array EXCEPT ![self] =
                       _init_params_array(dicts'[parameters[self]],
                                          _external_light_interception[self])]
            /\ state' = [state EXCEPT ![self] = InitialState(state0[self])]
    /\ UNCHANGED <<parameters, light_interception_method,
                   _external_light_interception, state0, h, plant_density, nsteps>>
    /\ step_trace' = <<>>

\* update_parameters that merges into the dictionary and leaves the
\* coefficient vector as it was.
update_parameters_stale(self, new_params) ==
    /\ Constructed(self)
    /\ IF DOMAIN new_params \ DOMAIN dicts[parameters[self]] # {}
       THEN /\ raised' = ValueError("Unknown parameters",
                                    DOMAIN new_params \ DOMAIN dicts[parameters[self]])
            /\ UNCHANGED dicts
       ELSE /\ raised' = None
            /\ dicts' = [dicts EXCEPT ![parameters[self]] = DictUpdate(@, new_params)]
    /\ UNCHANGED <<parameters, light_interception_method,
                   _external_light_interception, state0, state, h, plant_density,
                   params_array, nsteps>>
    /\ step_trace' = <<>>

\* update_parameters(**new_params)
update_parameters(self, new_params) ==
    LET d == parameters[self]
        unknown_params == DOMAIN new_params \ DOMAIN dicts[d]
        updated == DictUpdate(dicts[d], new_params)
    IN  /\ Constructed(self)
        /\ IF unknown_params # {}
           THEN /\ raised' = ValueError("Unknown parameters", unknown_params)
                /\ UNCHANGED <<dicts, params_array>>
           ELSE /\ raised' = None
                /\ dicts' = [dicts EXCEPT ![d] = updated]
                /\ params_array' =
                       [params_array EXCEPT ![self] =
                           _init_params_array(updated, _external_light_interception[self])]
        /\ UNCHANGED <<parameters, light_interception_method,
                       _external_light_interception, state0, state, h, plant_density,
                       nsteps>>
        /\ step_trace' = <<>>

\* reset splitting the current total dry weight where the code splits state0.
reset_current(self) ==
    /\ Constructed(self)
    /\ raised' = None
    /\ state' = [state EXCEPT ![self] = InitialState(state[self][1] + state[self][2])]
    /\ UNCHANGED <<dicts, parameters, light_interception_method,
                   _external_light_interception, state0, h, plant_density,
                   params_array, nsteps>>
    /\ step_trace' = <<>>

\* reset()
reset(self) ==
    /\ Constructed(self)
    /\ raised' = None
    /\ state' = [state EXCEPT ![self] = InitialState(state0[self])]
    /\ UNCHANGED <<dicts, parameters, light_interception_method,
                   _external_light_interception, state0, h, plant_density,
                   params_array, nsteps>>
    /\ step_trace' = <<>>

Construct ==
    \E self \in Instances, plant_dw \in PlantDws, plant_density_ \in PlantDensities,
       d \in DictIds, control_rate \in ControlRates, method \in Methods :
        __init__(self, plant_dw, plant_density_, d, control_rate, method)

SetLight ==
    \E self \in Instances, value \in LightValues :
        set_external_light_interception(self, value)

Step == \E self \in Instances, action \in Controls : step(self, action)

Update == \E self \in Instances, new_params \in NewParams : update_parameters(self, new_params)

Reset == \E self \in Instances : reset(self)

Next == Construct \/ SetLight \/ Step \/ Update \/ Reset

Spec == Init /\ [][Next]_vars

\* The same operations on dictionaries and arguments of which some map a
\* required key to None: d3 is complete and maps c_lar to None.
StoreDicts ==
    [d \in DictIds |->
        IF d = "d3" THEN DictUpdate(BaseParams, [c_lar |-> NonNumeric]) ELSE InitialDicts[d]]

StoreNewParams == { [c_gr_max |-> 0], [c_lar |-> NonNumeric] }

StoreInit ==
    /\ dicts = StoreDicts
    /\ parameters = <<>>
    /\ light_interception_method = <<>>
    /\ _external_light_interception = <<>>
    /\ state0 = <<>>
    /\ state = <<>>
    /\ h = <<>>
    /\ plant_density = <<>>
    /\ params_array = <<>>
    /\ raised = None
    /\ nsteps = 0
    /\ step_trace = <<>>

StoreUpdate ==
    \E self \in Instances, new_params \in StoreNewParams : update_parameters(self, new_params)

StoreNext == Construct \/ SetLight \/ Step \/ StoreUpdate \/ Reset

StoreSpec == StoreInit /\ [][StoreNext]_vars

----------------------------------------------------------------------------
(* Properties *)

\* The pair (0.2 * dw, 0.8 * dw).
Split(dw) == <<FMul(dw, Ratio(2, 10)), FMul(dw, Ratio(8, 10))>>

\* The override slot of a coefficient vector.
OverrideSlot == Len(ParamOrder) + 1

\* C1: the constructor called with dry weight dw leaves the state at
\* (0.2 * dw, 0.8 * dw); whatever calls follow, reset() leaves the state of
\* its object at exactly that pair again, dw being the constructor's argument.
C1_ResetRestoresSplit ==
    [][\A self \in Instances :
          /\ \A plant_dw \in PlantDws, plant_density_ \in PlantDensities, d \in DictIds,
                control_rate \in ControlRates, method \in Methods :
                (/\ __init__(self, plant_dw, plant_density_, d, control_rate, method)
                 /\ self \in DOMAIN state')
                => /\ state0'[self] = plant_dw
                   /\ state'[self] = Split(plant_dw)
          /\ Constructed(self) => state0'[self] = state0[self]
          /\ reset(self) => state'[self] = Split(state0[self])
      ]_vars

\* A reset has put back the state that a step had moved.
C1_Witness ==
    /\ DOMAIN state = {"a"}
    /\ nsteps = MaxSteps
    /\ nsteps > 0
    /\ raised = None
    /\ state["a"] = Split(Fix(5))

\* C2: update_parameters with at least one key that the parameter store does
\* not hold raises ValueError naming the unknown keys and changes nothing: no
\* dictionary entry (known keys of the same call included), no new key, no
\* slot of any coefficient vector.
C2_UnknownKeyRejectsAll ==
    [][\A self \in Instances, new_params \in NewParams :
          (/\ update_parameters(self, new_params)
           /\ DOMAIN new_params \ DOMAIN dicts[parameters[self]] # {})
          => /\ raised' = ValueError("Unknown parameters",
                                     DOMAIN new_params \ DOMAIN dicts[parameters[self]])
             /\ dicts' = dicts
             /\ params_array' = params_array
      ]_vars

\* A call that named c_gr_max and an unknown key was rejected, and c_gr_max
\* kept its value in the store and in the coefficient vector.
C2_Witness ==
    \E self \in DOMAIN parameters :
        /\ raised = ValueError("Unknown parameters", {"c_bogus"})
        /\ dicts[parameters[self]]["c_gr_max"] # 0
        /\ c_gr_max(params_array[self]) # 0

\* C3: set_external_light_interception(value) with value < 0 or value > 1
\* raises ValueError and leaves the stored override and the override slot of
\* the coefficient vector as they were; with 0 <= value <= 1 both become
\* value.
C3_LightRange ==
    [][\A self \in Instances, value \in LightValues :
          set_external_light_interception(self, value)
          => IF value < 0 \/ value > Fix(1)
             THEN /\ raised' = ValueError("Light interception must be between 0 and 1", {})
                  /\ _external_light_interception'[self] = _external_light_interception[self]
                  /\ params_array'[self][OverrideSlot] = params_array[self][OverrideSlot]
             ELSE /\ raised' = None
                  /\ _external_light_interception'[self] = value
                  /\ params_array'[self][OverrideSlot] = value
      ]_vars

\* A value outside [0, 1] was rejected after 0.42 had been accepted, and 0.42
\* is still the override.
C3_Witness ==
    \E self \in DOMAIN parameters :
        /\ raised = ValueError("Light interception must be between 0 and 1", {})
        /\ _external_light_interception[self] = Ratio(42, 100)
        /\ params_array[self][OverrideSlot] = Ratio(42, 100)

\* C4: __init__ raises ValueError exactly when plant_dw <= 0, plant_density
\* <= 0 or a required key is absent from the dictionary; the checks run in
\* this order, and the error for absent keys (dry weight and density being
\* positive) names exactly the absent keys.  A failed construction assigns no
\* attribute; a successful one leaves state (0.2 * dw, 0.8 * dw), override 0
\* and a coefficient vector of 21 slots.
C4_Construction ==
    [][\A self \in Instances, plant_dw \in PlantDws, plant_density_ \in PlantDensities,
          d \in DictIds, control_rate \in ControlRates, method \in Methods :
          __init__(self, plant_dw, plant_density_, d, control_rate, method)
          => IF plant_dw <= 0 \/ plant_density_ <= 0 \/ ~(required_params \subseteq DOMAIN dicts[d])
             THEN /\ raised'.type = "ValueError"
                  /\ (plant_dw > 0 /\ plant_density_ > 0)
                     => /\ raised'.msg = "Missing required parameters"
                        /\ raised'.names = required_params \ DOMAIN dicts[d]
                  /\ self \notin DOMAIN parameters'
                  /\ self \notin DOMAIN light_interception_method'
                  /\ self \notin DOMAIN _external_light_interception'
                  /\ self \notin DOMAIN state0'
                  /\ self \notin DOMAIN state'
                  /\ self \notin DOMAIN h'
                  /\ self \notin DOMAIN plant_density'
                  /\ self \notin DOMAIN params_array'
             ELSE /\ raised' = None
                  /\ state'[self] = Split(plant_dw)
                  /\ _external_light_interception'[self] = 0
                  /\ Len(params_array'[self]) = Len(ParamOrder) + 1
      ]_vars

\* A construction from the dictionary that lacks c_a and g_stm failed naming
\* the two keys, and no object exists.
C4_Witness ==
    /\ raised = ValueError("Missing required parameters", {"c_a", "g_stm"})
    /\ DOMAIN parameters = {}
    /\ DOMAIN state = {}

\* The transition is a call step(action) on self; such a call advances the
\* state or raises ZeroDivisionError, writes the state of no other object, and
\* first evaluates the rate function at the state of self with action.
Stepped(self, action) ==
    /\ nsteps' = nsteps + 1 \/ raised' = ZeroDivisionError
    /\ \A other \in DOMAIN state \ {self} : state'[other] = state[other]
    /\ Constructed(self)
    /\ step_trace' # <<>>
    /\ step_trace'[1] = Evaluated(state[self], action, params_array[self],
                                  light_interception_method[self])
    /\ step(self, action)

\* C5: the instances are independent: a call on one object changes neither
\* the state, nor the contents of the parameter store, nor the coefficient
\* vector of another object, whether or not the two were constructed from the
\* same dictionary.
C5_InstancesIndependent ==
    [][\A self \in Instances, other \in Instances :
          (/\ other # self
           /\ Constructed(other)
           /\ \/ \E action \in Controls : Stepped(self, action)
              \/ \E new_params \in NewParams : update_parameters(self, new_params)
              \/ \E value \in LightValues : set_external_light_interception(self, value)
              \/ reset(self))
          => /\ state'[other] = state[other]
             /\ dicts'[parameters[other]] = dicts[parameters[other]]
             /\ params_array'[other] = params_array[other]
      ]_vars

\* C6: step never fails on a numeric control vector: no call to step raises,
\* a zero denominator included.
C6_StepNeverRaises == raised # ZeroDivisionError

\* The override of an object, its slot and its range.
OverrideInv(self) ==
    /\ 0 <= _external_light_interception[self]
    /\ _external_light_interception[self] <= Fix(1)
    /\ params_array[self][OverrideSlot] = _external_light_interception[self]

\* C7: for every constructed object the override lies in [0, 1] and the last
\* slot of the coefficient vector equals it; it is 0 when __init__ returns,
\* becomes value in an accepted set_external_light_interception(value), and
\* no other call (step, reset, update_parameters accepted or rejected, a
\* rejected setter) changes it.
C7_Override ==
    /\ [](\A self \in DOMAIN parameters : OverrideInv(self))
    /\ [][\A self \in Instances :
             /\ (~Constructed(self) /\ self \in DOMAIN parameters')
                => _external_light_interception'[self] = 0
             /\ Constructed(self)
                => \/ _external_light_interception'[self] = _external_light_interception[self]
                   \/ \E value \in LightValues :
                         /\ set_external_light_interception(self, value)
                         /\ 0 <= value
                         /\ value <= Fix(1)
                         /\ _external_light_interception'[self] = value
         ]_vars

\* An accepted update_parameters re-derived the coefficient vector of an
\* object whose override is 0.42, and the last slot still holds 0.42.
C7_Witness ==
    \E self \in DOMAIN parameters :
        /\ _external_light_interception[self] = Ratio(42, 100)
        /\ params_array[self][OverrideSlot] = Ratio(42, 100)
        /\ c_gr_max(params_array[self]) = 0
        /\ c_gr_max(_init_params_array(InitialDicts[parameters[self]], 0)) # 0

\* The first 20 slots of a coefficient vector.
Coefficients(p) == SubSeq(p, 1, Len(ParamOrder))

\* C8: update_parameters (accepted or rejected) leaves the state, the method
\* and h of its object unchanged; reset leaves the parameter store, the
\* coefficient vector, the method and h unchanged; step leaves the parameter
\* store, the coefficient vector, the method and h unchanged; the state of an
\* object changes only in its step and reset, and the first 20 slots of its
\* coefficient vector only in its accepted update_parameters.
C8_Frame ==
    [][\A self \in Instances :
          /\ \A new_params \in NewParams :
                update_parameters(self, new_params)
                => /\ state'[self] = state[self]
                   /\ light_interception_method'[self] = light_interception_method[self]
                   /\ h'[self] = h[self]
          /\ \A stepOrReset \in {reset(self) \/ \E action \in Controls : Stepped(self, action)} :
                /\ stepOrReset
                   => /\ dicts' = dicts
                      /\ params_array'[self] = params_array[self]
                      /\ light_interception_method'[self] = light_interception_method[self]
                      /\ h'[self] = h[self]
                /\ (Constructed(self) /\ state'[self] # state[self]) => stepOrReset
          /\ (Constructed(self)
              /\ Coefficients(params_array'[self]) # Coefficients(params_array[self]))
             => \E new_params \in NewParams :
                   /\ update_parameters(self, new_params)
                   /\ raised' = None
      ]_vars

\* An object was stepped away from its initial state and then updated: the
\* coefficient vector holds the new c_gr_max and the state is the stepped one.
C8_Witness ==
    \E self \in DOMAIN parameters :
        /\ nsteps > 0
        /\ state[self] # Split(state0[self])
        /\ c_gr_max(params_array[self]) = 0
        /\ c_gr_max(_init_params_array(InitialDicts[parameters[self]], 0)) # 0

\* The coefficient vector p with v in the override slot.
WithOverride(p, v) == [p EXCEPT ![OverrideSlot] = v]

\* C9: in Beer-Lambert mode the override has no effect: the state a step
\* produces is the state it would produce with any other override in the
\* last slot of the coefficient vector.
C9_OverrideUnusedInBeerLambert ==
    [][\A self \in Instances, action \in Controls :
          (/\ Constructed(self)
           /\ light_interception_method[self] = 0
           /\ Stepped(self, action))
          => \A value \in {v \in LightValues : 0 <= v /\ v <= Fix(1)} :
                state'[self] = RK4(state[self], action,
                                   WithOverride(params_array[self], value), 0,
                                   Fix(h[self])).state
      ]_vars

\* An object in Beer-Lambert mode whose override is 0.42 was stepped.
C9_Witness ==
    \E self \in DOMAIN parameters :
        /\ light_interception_method[self] = 0
        /\ _external_light_interception[self] = Ratio(42, 100)
        /\ nsteps > 0
        /\ state[self] # Split(state0[self])

\* The hypotheses of C10 on a call step(self, action) that returned: no
\* radiation, a non-negative state, positive maintenance-respiration
\* coefficients.
DarkStep(self, action) ==
    /\ u_r(action) = 0
    /\ raised' = None
    /\ Stepped(self, action)
    /\ state[self][1] >= 0
    /\ state[self][2] >= 0
    /\ c_resp_sht(params_array[self]) > 0
    /\ c_resp_rt(params_array[self]) > 0

\* C10 as stated: a step without radiation does not increase x1.
C10_DarkStepNoGrowth ==
    [][\A self \in Instances, action \in Controls :
          DarkStep(self, action) => state'[self][2] <= state[self][2]
      ]_vars

\* C10 as amended: a step without radiation, the other hypotheses as stated,
\* leaves x1 as it was when moreover c_gr_max = 0.
C10_DarkStepNoGrowthCapacity ==
    [][\A self \in Instances, action \in Controls :
          (DarkStep(self, action) /\ c_gr_max(params_array[self]) = 0)
          => state'[self][2] = state[self][2]
      ]_vars

\* An object with c_gr_max = 0 was stepped without radiation from its initial
\* state: x0 has gone down and x1 is what it was.
C10_Witness ==
    \E self \in DOMAIN parameters, action \in Controls :
        /\ u_r(action) = 0
        /\ c_gr_max(params_array[self]) = 0
        /\ nsteps > 0
        /\ state[self] = RK4(Split(state0[self]), action, params_array[self],
                             light_interception_method[self], Fix(h[self])).state
        /\ state[self][1] < Split(state0[self])[1]
        /\ state[self][2] = Split(state0[self])[2]

\* C11: the parameter store of every constructed object holds the 20 required
\* keys and maps each of them to a number: no construction from a dictionary
\* that maps a required key to None succeeds, and no update_parameters that
\* would set a required key to None is accepted.
C11_StoreNumeric ==
    \A self \in DOMAIN parameters :
        /\ required_params \subseteq DOMAIN dicts[parameters[self]]
        /\ \A k \in required_params : Numeric(dicts[parameters[self]][k])

\* The classical fourth-order Runge-Kutta step as the transition of a call
\* step(action) on self: four evaluations of the rate function, in the order
\* k1, k2, k3, k4, at x, x + h/2 * k1, x + h/2 * k2 and x + h * k3, h being
\* control_rate * 60, each with the control vector, the coefficient vector
\* and the method of the call, and then one write of the state, to
\* x + h/6 * (k1 + 2 * k2 + 2 * k3 + k4).
RK4Scheme(self, action) ==
    LET x == state[self]
        p == params_array[self]
        m == light_interception_method[self]
        hh == Fix(h[self])
        k1 == _model_core(x, action, p, m).k
        x2 == Axpy(x, FDiv(hh, Fix(2)), k1)
        k2 == _model_core(x2, action, p, m).k
        x3 == Axpy(x, FDiv(hh, Fix(2)), k2)
        k3 == _model_core(x3, action, p, m).k
        x4 == Axpy(x, hh, k3)
        k4 == _model_core(x4, action, p, m).k
        new == Axpy(x, FDiv(hh, Fix(6)),
                    << k1[1] + 2 * k2[1] + 2 * k3[1] + k4[1],
                       k1[2] + 2 * k2[2] + 2 * k3[2] + k4[2] >>)
    IN  /\ \E control_rate \in ControlRates : h[self] = control_rate * SecondsPerMinute
        /\ step_trace' = << Evaluated(x, action, p, m), Evaluated(x2, action, p, m),
                            Evaluated(x3, action, p, m), Evaluated(x4, action, p, m),
                            Written(new) >>
        /\ state'[self] = new

\* C12: every call to step evaluates the rate function exactly four times, in
\* the order and at the stage states of the Runge-Kutta scheme, always with
\* the same control vector, coefficient vector and method, and writes the
\* state exactly once, after k4.
C12_StepIsRK4 ==
    [][\A self \in Instances, action \in Controls :
          Stepped(self, action) => RK4Scheme(self, action)
      ]_vars

\* The scheme of C12 for the calls to step that return: those in which no
\* evaluation of the rate function raises.
StepIsRK4WhenReturning ==
    [][\A self \in Instances, action \in Controls :
          (Stepped(self, action) /\ raised' = None) => RK4Scheme(self, action)
      ]_vars

\* The store's current values for the names of the fixed order.
StoreCoefficients(self) ==
    [i \in 1..Len(ParamOrder) |-> dicts[parameters[self]][ParamOrder[i]]]

\* Slot i of the coefficient vector of self holds the store's current value
\* for the i-th name, for each of the 20 names.
VectorMatchesStore(self) == Coefficients(params_array[self]) = StoreCoefficients(self)

\* C13: the first 20 slots of the coefficient vector equal the store's current
\* values in the fixed order when __init__ returns and when an accepted
\* update_parameters returns, and every operation of the object itself (step,
\* reset, set_external_light_interception, update_parameters) keeps them
\* equal (none of them is a transition that loses the equality); a step of
\* the object then evaluates the rate function with the store's current
\* values.
C13_VectorFollowsStore ==
    [][\A self \in Instances :
          /\ (~Constructed(self) /\ self \in DOMAIN parameters')
             => VectorMatchesStore(self)'
          /\ \A new_params \in NewParams :
                (update_parameters(self, new_params) /\ raised' = None)
                => VectorMatchesStore(self)'
          /\ (/\ Constructed(self)
              /\ VectorMatchesStore(self)
              /\ ~VectorMatchesStore(self)')
             => ~ \/ reset(self)
                  \/ \E value \in LightValues : set_external_light_interception(self, value)
                  \/ \E new_params \in NewParams : update_parameters(self, new_params)
                  \/ \E action \in Controls : Stepped(self, action)
          /\ \A action \in Controls :
                (Stepped(self, action) /\ VectorMatchesStore(self))
                => \A i \in 1..Len(step_trace') :
                      step_trace'[i].op = "_model_core"
                      => Coefficients(step_trace'[i].params_array) = StoreCoefficients(self)'
      ]_vars

\* An accepted update_parameters set c_gr_max to 0 in the store, and the step
\* that followed evaluated the rate function with c_gr_max = 0.
C13_Witness ==
    \E self \in DOMAIN parameters :
        /\ dicts[parameters[self]]["c_gr_max"] = 0
        /\ InitialDicts[parameters[self]]["c_gr_max"] # 0
        /\ VectorMatchesStore(self)
        /\ Len(step_trace) = 5
        /\ step_trace[1].x = Split(state0[self])
        /\ c_gr_max(step_trace[1].params_array) = 0
        /\ step_trace[5].x = state[self]

====
